---- MODULE Spec2Model ----
(***************************************************************************)
(* Damped mass-spring oscillator (physics_config/spring_physics.py).       *)
(*                                                                         *)
(* Number representation.  Inputs (m, k, c, x0, v0, times, step, force     *)
(* amplitude) are integers.  Every quantity the code obtains by a          *)
(* division or by the factor 0.5 is held as an exact rational <<n, d>> in  *)
(* lowest terms with d > 0 (Frac), so equalities between such quantities   *)
(* are exact.  The damping ratio zeta = c / (2*sqrt(k*m)) is irrational in *)
(* general; for c >= 0 it is non-negative and is represented by its        *)
(* square zeta_sq = c^2 / (4*k*m), every comparison of zeta with a         *)
(* non-negative threshold being done on the squares.                       *)
(*                                                                         *)
(* Library behaviour.  scipy's odeint is an adaptive LSODA solver: its     *)
(* first output row is the initial state, the later rows are modelled as   *)
(* any values of a bounded grid.  numpy's arange computes its length as    *)
(* ceil((stop - start)/step) in floating point, so an exactly integral     *)
(* quotient may be rounded up past the integer (e.g. (1.3 - 1)/0.1 =       *)
(* 3.0000000000000004, 0.07/0.005 = 14.000000000000002).  Times are whole  *)
(* ticks in the model, so whether the floating-point quotient of a request *)
(* rounds up is a property of the request, held in fp_rounds_up.           *)
(***************************************************************************)
EXTENDS Integers, Sequences, FiniteSets, TLC

VARIABLES
    pc,            \* "idle" | "returned" | "error": position of the request
    params,        \* the SpringParameters of the request
    time_span,     \* <<t0, t1>> passed to solve_spring_system
    time_step,     \* step passed to solve_spring_system
    force,         \* external_force_function passed to solve_spring_system
    solution,      \* the dictionary solve_spring_system returned (or NoSolution)
    odeint_calls,  \* number of times the ODE solver was entered
    error,         \* which call raised: "none" | "arange" | "odeint"
    solver_converged, \* FALSE when odeint's last run ended with a failure status
    fp_rounds_up,  \* the request's (t1 - t0)/step rounds above an integral quotient
    dtype,         \* last value of params.damping_type ("none" before a call)
    branch,        \* branch analytical_solution took ("none" before a call)
    force_log,     \* the calls made to force generators, in call order
    validation,    \* what validate_numerical_solution returned (or NoValidation)
    fft_result,    \* what frequency_analysis returned (or NoSpectrum)
    period,        \* last value of params.period (or NoPeriod)
    resonance,     \* what resonance_analysis returned (or NoResonance)
    heap,          \* the SpringParameters objects of the preset table, by key
    trajs,         \* the trajectories integrated from presets, in call order
    csv,           \* what export_to_csv returned (or NoCsv)
    conclusions,   \* what generate_conclusions reported (or NoConclusions)
    js_samples,    \* the sample indices handed to the browser animation
    anim,          \* state of a browser animation (frame index, playing, ...)
    analytic0      \* analytical_solution at t = 0 (or NoAnalytic)

vars == <<pc, params, time_span, time_step, force, solution, odeint_calls,
          error, solver_converged, fp_rounds_up, dtype, branch, force_log,
          validation, fft_result, period, resonance, heap, trajs, csv,
          conclusions, js_samples, anim, analytic0>>

(* The variables of the integrator and of the analysis functions. *)
coreVars == <<pc, params, time_span, time_step, force, solution, odeint_calls,
              error, solver_converged, fp_rounds_up, dtype, branch, force_log,
              validation, fft_result, period, resonance>>

(* The variables of the preset table, the export, the report and the UI. *)
outerVars == <<heap, trajs, csv, conclusions, js_samples, anim, analytic0>>

(* The variables solve_spring_system writes. *)
solveVars == <<pc, time_span, time_step, force, solution, odeint_calls, error,
               solver_converged>>

(* The variables the analysis functions and the force calls write. *)
analysisVars == <<force_log, validation, fft_result, period, resonance>>

---------------------------------------------------------------------------
(* Bounds of the explored input space. *)
MaxT == 3          \* time spans end at 1..MaxT
MaxStep == 2       \* steps 1..MaxStep
MaxAmp == 0        \* positions and velocities the solver returns: -1..MaxAmp
MaxCalls == 3      \* force generators are called at most MaxCalls times
MaxLength == 1100  \* trajectory lengths handed to the animation: 1..MaxLength
MaxFrames == 3   \* frames of an animation: 1..MaxFrames
Warm == 4        \* callbacks after Play left out of the frame count
Window == 8      \* callbacks over which advanced frames are counted
ClassMaxM == 2     \* classification: masses 1..ClassMaxM
ClassMaxK == 100   \* classification: stiffness 1..ClassMaxK
ClassMaxC == 24    \* classification: damping 0..ClassMaxC

---------------------------------------------------------------------------
(* Exact rational arithmetic. *)
Abs(n) == IF n < 0 THEN -n ELSE n

RECURSIVE GCD(_, _)
GCD(a, b) == IF b = 0 THEN a ELSE GCD(b, a % b)

Frac(n, d) ==
    LET s == IF d < 0 THEN -1 ELSE 1
        g == GCD(Abs(n), Abs(d))
    IN  <<(s * n) \div g, (s * d) \div g>>

RAdd(p, q) == Frac(p[1] * q[2] + q[1] * p[2], p[2] * q[2])
RLt(p, q) == p[1] * q[2] < q[1] * p[2]

CeilDiv(a, b) == -((-a) \div b)     \* b > 0
RMul(p, q) == Frac(p[1] * q[1], p[2] * q[2])
RSub(p, q) == RAdd(p, <<-q[1], q[2]>>)

---------------------------------------------------------------------------
(* class DampingType *)
UNDAMPED == "UNDAMPED"
UNDERDAMPED == "UNDERDAMPED"
CRITICALLY_DAMPED == "CRITICALLY_DAMPED"
OVERDAMPED == "OVERDAMPED"

(* SpringParameters(m, k, c, x0, v0) *)
SpringParameters(m, k, c, x0, v0) == [m |-> m, k |-> k, c |-> c, x0 |-> x0, v0 |-> v0]

(* SpringParameters.zeta, squared: (c / (2*sqrt(k*m)))^2 = c^2 / (4*k*m). *)
zeta_sq(p) == Frac(p.c * p.c, 4 * p.k * p.m)

(* zeta < 1 (zeta >= 0): zeta^2 < 1. *)
zeta_lt_1(p) == RLt(zeta_sq(p), <<1, 1>>)

(* np.isclose(zeta, 1, rtol=0.1): |zeta - 1| <= atol + rtol*|1| with the   *)
(* default atol = 1e-8, i.e. 0.9 - 1e-8 <= zeta <= 1.1 + 1e-8.  On squares *)
(* n/d: 81*d - 100*n <= 100*d*(1.8e-8 - 1e-16) and                         *)
(* 100*n - 121*d <= 100*d*(2.2e-8 + 1e-16); the left sides are integers,   *)
(* so the right sides are floored (the 1e-16 terms are below the integer   *)
(* resolution for every d the model reaches).                              *)
isclose_zeta_1(p) ==
    LET n == zeta_sq(p)[1]
        d == zeta_sq(p)[2]
    IN  /\ 81 * d - 100 * n <= (18 * d) \div 10000000
        /\ 100 * n - 121 * d <= (22 * d) \div 10000000

(* damping_type with the two tests in the other order (faulty variant). *)
damping_type_swapped(p) ==
    IF p.c = 0 THEN UNDAMPED
    ELSE IF zeta_lt_1(p) THEN UNDERDAMPED
    ELSE IF isclose_zeta_1(p) THEN CRITICALLY_DAMPED
    ELSE OVERDAMPED

(* SpringParameters.damping_type *)
damping_type(p) ==
    IF p.c = 0 THEN UNDAMPED
    ELSE IF isclose_zeta_1(p) THEN CRITICALLY_DAMPED
    ELSE IF zeta_lt_1(p) THEN UNDERDAMPED
    ELSE OVERDAMPED

(* analytical_solution: the closed-form branch the if/elif chain selects,  *)
(* named by the regime whose formula it evaluates.                         *)
analytical_branch(p) ==
    IF p.c = 0 THEN UNDAMPED
    ELSE IF zeta_lt_1(p) THEN UNDERDAMPED
    ELSE IF isclose_zeta_1(p) THEN CRITICALLY_DAMPED
    ELSE OVERDAMPED

---------------------------------------------------------------------------
(* Force generators.  None is the absent external_force_function. *)
NoForce == [kind |-> "None"]

(* no_force: the generator that returns 0.0 for every t *)
no_force == [kind |-> "no_force"]

(* step_force(amplitude, t_start): the closure F *)
step_force(amplitude, t_start) == [kind |-> "step", amplitude |-> amplitude, t_start |-> t_start]

(* step_force's F with the comparison t > t_start (faulty variant). *)
call_force_late(F, t) ==
    IF F.kind = "step" THEN (IF t > F.t_start THEN F.amplitude ELSE 0)
    ELSE 0

(* Calling a force generator at time t: F(t).  step_force's F reads only   *)
(* its argument and the two values its closure captured, and compares      *)
(* t >= t_start; no_force returns 0.                                       *)
call_force(F, t) ==
    IF F.kind = "step" THEN (IF t >= F.t_start THEN F.amplitude ELSE 0)
    ELSE 0

(* external_force_function(time) if external_force_function else 0 *)
external_force_at(F, t) == IF F.kind = "None" THEN 0 ELSE call_force(F, t)

calculate_spring_force(spring_constant, displacement) == -spring_constant * displacement

calculate_damping_force(damping_coefficient, velocity) == -damping_coefficient * velocity

calculate_net_force(spring_constant, damping_coefficient, displacement, velocity, external_force) ==
    LET spring == calculate_spring_force(spring_constant, displacement)
        damping == calculate_damping_force(damping_coefficient, velocity)
    IN  external_force + spring + damping

calculate_acceleration(mass, net_force) == Frac(net_force, mass)

(* spring_system_derivatives(state, time, params, F): <<velocity, acceleration>> *)
spring_system_derivatives(state, time, p, F) ==
    LET position == state[1]
        velocity == state[2]
        external_force == external_force_at(F, time)
        net_force == calculate_net_force(p.k, p.c, position, velocity, external_force)
    IN  <<velocity, calculate_acceleration(p.m, net_force)>>

(* calculate_acceleration_array without the external force term (faulty variant). *)
calculate_acceleration_array_unforced(p, time_array, position, velocity, F) ==
    [i \in 1..Len(time_array) |->
        calculate_acceleration(p.m,
            calculate_net_force(p.k, p.c, position[i], velocity[i], 0))]

calculate_acceleration_array(p, time_array, position, velocity, F) ==
    [i \in 1..Len(time_array) |->
        LET external_force == external_force_at(F, time_array[i])
            net_force == calculate_net_force(p.k, p.c, position[i], velocity[i], external_force)
        IN  calculate_acceleration(p.m, net_force)]

(* calculate_kinetic_energy with the square of the velocity lost (faulty variant). *)
calculate_kinetic_energy_linear(mass, velocity) ==
    [i \in 1..Len(velocity) |-> Frac(mass * velocity[i], 2)]

(* 0.5 * mass * velocity**2, elementwise *)
calculate_kinetic_energy(mass, velocity) ==
    [i \in 1..Len(velocity) |-> Frac(mass * velocity[i] * velocity[i], 2)]

(* 0.5 * spring_constant * displacement**2, elementwise *)
calculate_potential_energy(spring_constant, displacement) ==
    [i \in 1..Len(displacement) |-> Frac(spring_constant * displacement[i] * displacement[i], 2)]

(* dissipated[0] = 0; dissipated[i] = dissipated[i-1] + c * v[i]**2 * dt *)
RECURSIVE dissipated_at(_, _, _, _)
dissipated_at(damping_coefficient, velocity, dt, i) ==
    IF i = 1 THEN 0
    ELSE dissipated_at(damping_coefficient, velocity, dt, i - 1)
         + damping_coefficient * velocity[i] * velocity[i] * dt

(* calculate_dissipated_energy accumulating c * v[i] * dt, the square lost (faulty variant). *)
RECURSIVE dissipated_linear_at(_, _, _, _)
dissipated_linear_at(damping_coefficient, velocity, dt, i) ==
    IF i = 1 THEN 0
    ELSE dissipated_linear_at(damping_coefficient, velocity, dt, i - 1)
         + damping_coefficient * velocity[i] * dt

calculate_dissipated_energy_linear(damping_coefficient, velocity, dt) ==
    [i \in 1..Len(velocity) |-> dissipated_linear_at(damping_coefficient, velocity, dt, i)]

(* calculate_dissipated_energy dropping the first entry (faulty variant). *)
calculate_dissipated_energy_short(damping_coefficient, velocity, dt) ==
    [i \in 1..(Len(velocity) - 1) |-> dissipated_at(damping_coefficient, velocity, dt, i + 1)]

calculate_dissipated_energy(damping_coefficient, velocity, dt) ==
    [i \in 1..Len(velocity) |-> dissipated_at(damping_coefficient, velocity, dt, i)]

---------------------------------------------------------------------------
(* arange with the length floor((stop - start)/step) (faulty variant). *)
arange_length_floor(start, stop, step, rounds_up) ==
    LET span == IF step > 0 THEN stop - start ELSE start - stop
        astep == Abs(step)
    IN  IF span <= 0 THEN 0 ELSE span \div astep

(* Length of np.arange(start, stop, step), step # 0:                       *)
(* ceil((stop - start)/step) evaluated in floating point and never         *)
(* negative; when the exact quotient is a positive integer q and the       *)
(* computed quotient exceeds it (rounds_up), the length is q + 1.          *)
arange_length(start, stop, step, rounds_up) ==
    LET span == IF step > 0 THEN stop - start ELSE start - stop
        astep == Abs(step)
    IN  IF span <= 0 THEN 0
        ELSE IF span % astep = 0
             THEN (IF rounds_up THEN (span \div astep) + 1 ELSE span \div astep)
        ELSE CeilDiv(span, astep)

(* initial_state with position and velocity exchanged (faulty variant). *)
initial_state_swapped(p) == <<p.v0, p.x0>>

(* initial_state = [params.x0, params.v0] *)
initial_state(p) == <<p.x0, p.v0>>

(* The n elements of np.arange: start + i*step, i = 0 .. n-1. *)
arange(start, n, step) == [i \in 1..n |-> start + (i - 1) * step]

(* Rows the ODE solver may produce after the first. *)
SolverRows == ((-1)..MaxAmp) \X ((-1)..MaxAmp)

(* scipy.integrate.odeint(func, y0, t) for n = len(t) >= 1 time points:    *)
(* row 0 is y0, the other rows are the solver's approximations, any of the *)
(* set rows.                                                               *)
odeint(y0, n, rows) ==
    {[i \in 1..n |-> IF i = 1 THEN y0 ELSE r[i]] : r \in [2..n -> rows]}

(* Whether an odeint run over n grid points ends with a success status:    *)
(* a single point needs no integration; otherwise LSODA may give up.       *)
odeint_status(n) == IF n <= 1 THEN {TRUE} ELSE {TRUE, FALSE}

NoSolution == [t |-> <<>>, x |-> <<>>, v |-> <<>>, a |-> <<>>, KE |-> <<>>,
               PE |-> <<>>, E_total |-> <<>>, E_dissipated |-> <<>>]

NoValidation == [done |-> FALSE]
NoSpectrum == [done |-> FALSE]
NoPeriod == [done |-> FALSE]
NoResonance == [done |-> FALSE]
NoCsv == [done |-> FALSE]
NoSamples == [done |-> FALSE]
NoConclusions == [done |-> FALSE]
NoAnimation == [loaded |-> FALSE]
NoAnalytic == [done |-> FALSE]

(* The body of solve_spring_system after odeint returned sol for the grid  *)
(* time_array: the returned dictionary.                                    *)
build_solution(p, time_array, sol, dt, F) ==
    LET position == [i \in 1..Len(sol) |-> sol[i][1]]
        velocity == [i \in 1..Len(sol) |-> sol[i][2]]
        acceleration == calculate_acceleration_array(p, time_array, position, velocity, F)
        kinetic_energy == calculate_kinetic_energy(p.m, velocity)
        potential_energy == calculate_potential_energy(p.k, position)
        total_energy == [i \in 1..Len(kinetic_energy) |->
                            RAdd(kinetic_energy[i], potential_energy[i])]
        dissipated_energy == calculate_dissipated_energy(p.c, velocity, dt)
    IN  [t |-> time_array, x |-> position, v |-> velocity, a |-> acceleration,
         KE |-> kinetic_energy, PE |-> potential_energy, E_total |-> total_energy,
         E_dissipated |-> dissipated_energy]

(* solve_spring_system(params, time_span, time_step, external_force_function), *)
(* rows being the values the solver may produce after the first row.       *)
(* No argument is checked: np.arange raises for a zero step, otherwise      *)
(* odeint is entered with whatever grid arange produced.  For an empty grid *)
(* the solver either raises or hands back an empty result.  odeint is      *)
(* called without full_output: when LSODA ends with a failure status       *)
(* (e.g. excess work, more than mxstep internal steps between two grid     *)
(* points) it only issues an ODEintWarning and still returns its array, so *)
(* the handler goes on and returns the dictionary.                         *)
solve_spring_system_on(span, dt, F, rows) ==
    /\ pc = "idle"
    /\ time_span' = span
    /\ time_step' = dt
    /\ force' = F
    /\ UNCHANGED <<params, fp_rounds_up, dtype, branch, analysisVars, outerVars>>
    /\ IF dt = 0
       THEN /\ pc' = "error"
            /\ error' = "arange"
            /\ UNCHANGED <<solution, odeint_calls, solver_converged>>
       ELSE LET n == arange_length(span[1], span[2], dt, fp_rounds_up)
                time_array == arange(span[1], n, dt)
            IN  /\ odeint_calls' = odeint_calls + 1
                  /\ IF n = 0
                     THEN \/ /\ pc' = "error"
                             /\ error' = "odeint"
                             /\ UNCHANGED <<solution, solver_converged>>
                          \/ /\ pc' = "returned"
                             /\ UNCHANGED <<error, solver_converged>>
                             /\ solution' = build_solution(params, time_array, <<>>, dt, F)
                     ELSE \E sol \in odeint(initial_state(params), n, rows) :
                          \E converged \in odeint_status(n) :
                             /\ pc' = "returned"
                             /\ UNCHANGED error
                             /\ solver_converged' = converged
                             /\ solution' = build_solution(params, time_array, sol, dt, F)

(* solve_spring_system with the solver's rows drawn from SolverRows. *)
solve_spring_system(span, dt, F) == solve_spring_system_on(span, dt, F, SolverRows)

(* Reading params.damping_type. *)
DampingTypeCall ==
    /\ dtype = "none"
    /\ dtype' = damping_type(params)
    /\ UNCHANGED <<solveVars, params, fp_rounds_up, branch, analysisVars, outerVars>>

(* Calling analytical_solution(params, t). *)
AnalyticalSolutionCall ==
    /\ branch = "none"
    /\ branch' = analytical_branch(params)
    /\ UNCHANGED <<solveVars, params, fp_rounds_up, dtype, analysisVars, outerVars>>

---------------------------------------------------------------------------
(* Floating-point results that may be NaN or infinite: a number carries    *)
(* its exact rational value.                                               *)
FNum(r) == [kind |-> "num", val |-> r]
FNaN == [kind |-> "nan"]
FInf == [kind |-> "inf"]

(* a / b for a >= 0, b >= 0 under np.errstate(divide='ignore',             *)
(* invalid='ignore'): 0/0 is NaN, a/0 is +inf for a > 0.                   *)
fdiv(a, b) ==
    IF b # 0 THEN FNum(Frac(a, b))
    ELSE IF a = 0 THEN FNaN ELSE FInf

(* nan_to_num that replaces NaN only (faulty variant). *)
nan_to_num_keep_inf(x) == IF x.kind = "nan" THEN FNum(<<0, 1>>) ELSE x

(* np.nan_to_num(x, nan=0, posinf=0, neginf=0) *)
nan_to_num(x) == IF x.kind = "num" THEN x ELSE FNum(<<0, 1>>)

(* Sum of the first i elements of an array of floating-point results. *)
RECURSIVE fsum(_, _)
fsum(s, i) ==
    IF i = 0 THEN FNum(<<0, 1>>)
    ELSE LET r == fsum(s, i - 1)
         IN  IF r.kind = "nan" \/ s[i].kind = "nan" THEN FNaN
             ELSE IF r.kind = "inf" \/ s[i].kind = "inf" THEN FInf
             ELSE FNum(RAdd(r.val, s[i].val))

(* np.mean of a non-empty array *)
fmean(s) ==
    LET total == fsum(s, Len(s))
    IN  IF total.kind = "num" THEN FNum(Frac(total.val[1], total.val[2] * Len(s)))
        ELSE total

(* x * 100 *)
percent(x) == IF x.kind = "num" THEN FNum(Frac(100 * x.val[1], x.val[2])) ELSE x

(* np.max(np.abs(s)) of a non-empty integer array *)
max_abs(s) ==
    CHOOSE v \in {Abs(s[i]) : i \in DOMAIN s} : \A i \in DOMAIN s : Abs(s[i]) <= v

(* Sum of the squares of the first i elements. *)
RECURSIVE sum_sq(_, _)
sum_sq(s, i) == IF i = 0 THEN 0 ELSE sum_sq(s, i - 1) + s[i] * s[i]

(* rms_error <= 0.01 * max|x_analytical| (faulty variant). *)
is_accurate_nonstrict(rms_error_sq, max_analytical) ==
    ~RLt(Frac(max_analytical * max_analytical, 10000), rms_error_sq)

(* rms_error < 0.01 * np.max(np.abs(x_analytical)); both sides are         *)
(* non-negative, so the comparison is the one of their squares,            *)
(* mean(error^2) < max^2 / 10000.                                          *)
is_accurate(rms_error_sq, max_analytical) ==
    RLt(rms_error_sq, Frac(max_analytical * max_analytical, 10000))

(* Positions analytical_solution may return for an unforced system on the  *)
(* grid time_array.  The closed forms involve exp, cos and sin, so the     *)
(* values are any of a bounded grid, except for what every branch          *)
(* guarantees: the position at t = 0 is x0 (up to a rounding error in the  *)
(* overdamped branch, far below the resolution of the grid), and with      *)
(* x0 = v0 = 0 both coefficients A and B vanish and the position is 0      *)
(* throughout.                                                             *)
AnalyticGrid == {-2, 0, 100}

analytical_solution(p, time_array) ==
    {xa \in [1..Len(time_array) -> AnalyticGrid \cup {p.x0}] :
        /\ \A i \in 1..Len(time_array) : time_array[i] = 0 => xa[i] = p.x0
        /\ (p.x0 = 0 /\ p.v0 = 0) => \A i \in 1..Len(time_array) : xa[i] = 0}

(* The dictionary validate_numerical_solution builds from the numerical    *)
(* positions and the analytical ones.  correlation is np.corrcoef, which   *)
(* is NaN exactly when one of the two arrays has zero variance.            *)
validation_metrics(x_numerical, x_analytical) ==
    LET n == Len(x_numerical)
        err == [i \in 1..n |-> x_numerical[i] - x_analytical[i]]
        rms_error_sq == Frac(sum_sq(err, n), n)
        rel_error == [i \in 1..n |->
                        nan_to_num(fdiv(Abs(err[i]), Abs(x_analytical[i])))]
        constant(s) == \A i \in 1..n : s[i] = s[1]
    IN  [done |-> TRUE, raised |-> FALSE,
         x_analytical |-> x_analytical,
         max_error |-> max_abs(err),
         rms_error_sq |-> rms_error_sq,
         relative_error |-> percent(fmean(rel_error)),
         correlation_is_nan |-> constant(x_numerical) \/ constant(x_analytical),
         is_accurate |-> is_accurate(rms_error_sq, max_abs(x_analytical))]

(* validate_numerical_solution(solution).  Whether the trajectory was      *)
(* integrated with an external force is not looked at.  On an empty        *)
(* trajectory np.max raises ValueError.                                    *)
validate_numerical_solution ==
    /\ pc = "returned"
    /\ ~validation.done
    /\ IF Len(solution.t) = 0
       THEN validation' = [done |-> TRUE, raised |-> TRUE]
       ELSE \E xa \in analytical_solution(params, solution.t) :
               validation' = validation_metrics(solution.x, xa)
    /\ UNCHANGED <<solveVars, params, fp_rounds_up, dtype, branch,
                   force_log, fft_result, period, resonance, outerVars>>

---------------------------------------------------------------------------
(* omega_d^2 = omega_n^2 * (1 - zeta^2) = k/m - c^2/(4 m^2) *)
omega_d_sq(p) == Frac(4 * p.k * p.m - p.c * p.c, 4 * p.m * p.m)

(* zeta >= 0.9, on the squares *)
zeta_ge_09(p) == ~RLt(zeta_sq(p), <<81, 100>>)

(* period with the threshold zeta >= 1 (faulty variant). *)
period_of_critical(p) ==
    IF ~zeta_lt_1(p) THEN [done |-> TRUE, inf |-> TRUE]
    ELSE [done |-> TRUE, inf |-> FALSE,
          sq_over_4pi2 |-> Frac(omega_d_sq(p)[2], omega_d_sq(p)[1])]

(* SpringParameters.period: float('inf') when zeta >= 0.9, otherwise       *)
(* 2*pi/omega_d, held as period^2 / (4 pi^2) = 1 / omega_d^2.              *)
period_of(p) ==
    IF zeta_ge_09(p) THEN [done |-> TRUE, inf |-> TRUE]
    ELSE [done |-> TRUE, inf |-> FALSE,
          sq_over_4pi2 |-> Frac(omega_d_sq(p)[2], omega_d_sq(p)[1])]

(* Reading params.period. *)
PeriodCall ==
    /\ ~period.done
    /\ period' = period_of(params)
    /\ UNCHANGED <<solveVars, params, fp_rounds_up, dtype, branch,
                   force_log, validation, fft_result, resonance, outerVars>>

(* 2*cos(2*pi*j/N), an integer exactly for the lengths N = 1, 2, 3, 4, 6.  *)
TwoCos(j, N) ==
    CASE N = 1 -> 2
      [] N = 2 -> <<2, -2>>[j + 1]
      [] N = 3 -> <<2, -1, -1>>[j + 1]
      [] N = 4 -> <<2, 0, -2, 0>>[j + 1]
      [] N = 6 -> <<2, 1, -1, -2, -1, 1>>[j + 1]

(* Partial sum of x[n]*x[m]*2cos(2 pi k (n-m)/N) over the first i index    *)
(* pairs (n, m): in full it is 2*|X_k|^2, X = np.fft.fft(x).               *)
RECURSIVE fft_power2(_, _, _)
fft_power2(x, k, i) ==
    IF i = 0 THEN 0
    ELSE LET N == Len(x)
             n == (i - 1) \div N
             m == (i - 1) % N
         IN  fft_power2(x, k, i - 1)
               + x[n + 1] * x[m + 1] * TwoCos((k * (n - m) + k * N) % N, N)

(* (np.abs(fft_result)[k] / N * 2)^2 = 2 * (2 |X_k|^2) / N^2 *)
amplitude_sq(x, k) ==
    LET N == Len(x) IN Frac(2 * fft_power2(x, k, N * N), N * N)

(* The indices k of np.fft.fftfreq(N, dt) whose frequency k/(N*dt) is      *)
(* positive (dt > 0): 1 .. (N-1) div 2; the others are 0 or negative.      *)
positive_bins(N) == (N - 1) \div 2

(* argmax returning the last maximum (faulty variant). *)
argmax_last(a) ==
    CHOOSE i \in DOMAIN a :
        /\ \A j \in DOMAIN a : ~RLt(a[i], a[j])
        /\ \A j \in DOMAIN a : j > i => RLt(a[j], a[i])

(* np.argmax of a non-empty array: the first index holding the maximum. *)
argmax(a) ==
    CHOOSE i \in DOMAIN a :
        /\ \A j \in DOMAIN a : ~RLt(a[i], a[j])
        /\ \A j \in DOMAIN a : j < i => RLt(a[j], a[i])

(* theoretical_freq: omega_d/(2 pi) when zeta < 0.9 (held as               *)
(* theoretical_freq^2 * 4 pi^2 = omega_d^2), otherwise 0.                  *)
theoretical_freq(p) ==
    IF ~zeta_ge_09(p) THEN [zero |-> FALSE, sq_times_4pi2 |-> omega_d_sq(p)]
    ELSE [zero |-> TRUE]

(* freq_error: |dominant_freq - theoretical_freq| / theoretical_freq * 100 *)
(* when theoretical_freq > 0, otherwise 0.  dominant_freq is rational and  *)
(* a positive theoretical_freq is omega_d/(2 pi) with omega_d^2 rational,  *)
(* so the two never coincide and the quotient is held symbolically.        *)
freq_error(dominant_freq, tf) ==
    IF ~tf.zero
    THEN [zero |-> FALSE, dominant_freq |-> dominant_freq,
          sq_times_4pi2 |-> tf.sq_times_4pi2]
    ELSE [zero |-> TRUE]

(* frequency_analysis(solution).  There is no check of the sample count:   *)
(* t[1] raises IndexError on fewer than two samples, and with two samples  *)
(* fftfreq gives [0, -1/(2 dt)], the masked arrays are empty and np.argmax *)
(* raises ValueError.                                                      *)
frequency_analysis ==
    /\ pc = "returned"
    /\ ~fft_result.done
    /\ LET N == Len(solution.t)
       IN  IF N < 2
           THEN fft_result' = [done |-> TRUE, raised |-> TRUE, error |-> "IndexError"]
           ELSE LET dt == solution.t[2] - solution.t[1]
                    K == positive_bins(N)
                    frequencies == [k \in 1..K |-> Frac(k, N * dt)]
                    amplitudes_sq == [k \in 1..K |-> amplitude_sq(solution.x, k)]
                IN  IF K = 0
                    THEN fft_result' = [done |-> TRUE, raised |-> TRUE,
                                        error |-> "ValueError"]
                    ELSE LET dominant_idx == argmax(amplitudes_sq)
                             dominant_freq == frequencies[dominant_idx]
                             tf == theoretical_freq(params)
                         IN  fft_result' =
                                [done |-> TRUE, raised |-> FALSE,
                                 frequencies |-> frequencies,
                                 amplitudes_sq |-> amplitudes_sq,
                                 dominant_freq |-> dominant_freq,
                                 theoretical_freq |-> tf,
                                 freq_error |-> freq_error(dominant_freq, tf)]
    /\ UNCHANGED <<solveVars, params, fp_rounds_up, dtype, branch,
                   force_log, validation, period, resonance, outerVars>>

---------------------------------------------------------------------------
(* omega_n^2 = k/m *)
omega_n_sq(p) == Frac(p.k, p.m)

(* resonance_omega with the test zeta < 1 (faulty variant). *)
resonance_omega_sq_underdamped(p) ==
    IF zeta_lt_1(p)
    THEN RMul(omega_n_sq(p), RSub(<<1, 1>>, RMul(<<2, 1>>, zeta_sq(p))))
    ELSE <<0, 1>>

(* resonance_omega: omega_n * sqrt(1 - 2*zeta^2) when zeta < 1/sqrt(2)     *)
(* (zeta^2 < 1/2), otherwise 0; held as its square.                        *)
resonance_omega_sq(p) ==
    IF RLt(zeta_sq(p), <<1, 2>>)
    THEN RMul(omega_n_sq(p), RSub(<<1, 1>>, RMul(<<2, 1>>, zeta_sq(p))))
    ELSE <<0, 1>>

(* resonance_analysis(params) with the default omega_range and n_points.   *)
(* Q_factor = 1/(2 zeta) is held as its square k*m/c^2 (infinite for       *)
(* zeta = 0); bandwidth = 2*zeta*omega_n = c/m.  The swept arrays omega    *)
(* and amplitude (n_points values each) are not held.                      *)
ResonanceAnalysisCall ==
    /\ ~resonance.done
    /\ resonance' =
          [done |-> TRUE,
           resonance_omega_sq |-> resonance_omega_sq(params),
           Q_factor_sq |-> IF params.c > 0
                           THEN FNum(Frac(params.k * params.m, params.c * params.c))
                           ELSE FInf,
           bandwidth |-> Frac(params.c, params.m)]
    /\ UNCHANGED <<solveVars, params, fp_rounds_up, dtype, branch,
                   force_log, validation, fft_result, period, outerVars>>

(* Numbers a + b*sqrt(r) with rational a, b and a rational radicand r >= 0 *)
(* shared by the operands: the values the closed forms take at t = 0.      *)
(* When r is the square of a rational the root is folded into a, so that   *)
(* the representation of a value is unique.                                *)
RNeg(p) == <<-p[1], p[2]>>
RDiv(p, q) == Frac(p[1] * q[2], p[2] * q[1])    \* q # 0

IsSquare(n) == \E s \in 0..n : s * s = n
ISqrt(n) == CHOOSE s \in 0..n : s * s = n

QRat(x, r) == [a |-> x, b |-> <<0, 1>>, r |-> r]
QInt(n, r) == QRat(<<n, 1>>, r)

(* np.sqrt(r) *)
QSqrt(r) ==
    IF IsSquare(r[1]) /\ IsSquare(r[2])
    THEN QRat(Frac(ISqrt(r[1]), ISqrt(r[2])), r)
    ELSE [a |-> <<0, 1>>, b |-> <<1, 1>>, r |-> r]

QNeg(x) == [a |-> RNeg(x.a), b |-> RNeg(x.b), r |-> x.r]
QAdd(x, y) == [a |-> RAdd(x.a, y.a), b |-> RAdd(x.b, y.b), r |-> x.r]
QSub(x, y) == QAdd(x, QNeg(y))
QMul(x, y) ==
    [a |-> RAdd(RMul(x.a, y.a), RMul(RMul(x.b, y.b), x.r)),
     b |-> RAdd(RMul(x.a, y.b), RMul(x.b, y.a)),
     r |-> x.r]

(* x / y for y # 0, through the conjugate of y. *)
QDiv(x, y) ==
    LET norm == RSub(RMul(y.a, y.a), RMul(RMul(y.b, y.b), y.r))
        num == QMul(x, [a |-> y.a, b |-> RNeg(y.b), r |-> y.r])
    IN  [a |-> RDiv(num.a, norm), b |-> RDiv(num.b, norm), r |-> x.r]

(* zeta * omega_n = (c / (2*sqrt(k*m))) * sqrt(k/m) = c / (2*m) *)
alpha_of(p) == Frac(p.c, 2 * p.m)

(* The undamped branch at t = 0 (cos 0 = 1, sin 0 = 0). *)
undamped_at_0(p) ==
    LET W == omega_n_sq(p)
        omega_n == QSqrt(W)
        A == QInt(p.x0, W)
        B == QDiv(QInt(p.v0, W), omega_n)
    IN  [x |-> QAdd(QMul(A, QInt(1, W)), QMul(B, QInt(0, W))),
         v |-> QAdd(QMul(QMul(QNeg(A), omega_n), QInt(0, W)),
                    QMul(QMul(B, omega_n), QInt(1, W)))]

(* The underdamped branch at t = 0 with B = v0 / omega_d (the term         *)
(* alpha * x0 left out).                                                   *)
underdamped_at_0_plain(p) ==
    LET D == omega_d_sq(p)
        omega_d == QSqrt(D)
        alpha == QRat(alpha_of(p), D)
        A == QInt(p.x0, D)
        B == QDiv(QInt(p.v0, D), omega_d)
    IN  [x |-> QMul(QInt(1, D), QAdd(QMul(A, QInt(1, D)), QMul(B, QInt(0, D)))),
         v |-> QMul(QInt(1, D),
                    QAdd(QMul(QAdd(QMul(QNeg(alpha), A), QMul(omega_d, B)), QInt(1, D)),
                         QMul(QSub(QMul(QNeg(alpha), B), QMul(omega_d, A)), QInt(0, D))))]

(* The underdamped branch at t = 0: omega_d = omega_n * sqrt(1 - zeta^2),  *)
(* alpha = zeta * omega_n, A = x0, B = (v0 + alpha * x0) / omega_d.        *)
underdamped_at_0(p) ==
    LET D == omega_d_sq(p)
        omega_d == QSqrt(D)
        alpha == QRat(alpha_of(p), D)
        A == QInt(p.x0, D)
        B == QDiv(QAdd(QInt(p.v0, D), QMul(alpha, A)), omega_d)
    IN  [x |-> QMul(QInt(1, D), QAdd(QMul(A, QInt(1, D)), QMul(B, QInt(0, D)))),
         v |-> QMul(QInt(1, D),
                    QAdd(QMul(QAdd(QMul(QNeg(alpha), A), QMul(omega_d, B)), QInt(1, D)),
                         QMul(QSub(QMul(QNeg(alpha), B), QMul(omega_d, A)), QInt(0, D))))]

(* The critical branch at t = 0: A = x0, B = v0 + omega_n * x0,            *)
(* x = exp(0) * (A + B*0), v = exp(0) * (B - omega_n * (A + B*0)).         *)
critical_at_0(p) ==
    LET W == omega_n_sq(p)
        omega_n == QSqrt(W)
        A == QInt(p.x0, W)
        B == QAdd(QInt(p.v0, W), QMul(omega_n, A))
        AB0 == QAdd(A, QMul(B, QInt(0, W)))
    IN  [x |-> QMul(QInt(1, W), AB0),
         v |-> QMul(QInt(1, W), QSub(B, QMul(omega_n, AB0)))]

(* The overdamped branch at t = 0: r1, r2 = -omega_n * (zeta +- sqrt(zeta^2 *)
(* - 1)) = -(alpha +- sqrt(alpha^2 - k/m)), A = (r2*x0 - v0) / (r2 - r1),  *)
(* B = (v0 - r1*x0) / (r2 - r1).                                           *)
overdamped_at_0(p) ==
    LET G == RNeg(omega_d_sq(p))
        root == QSqrt(G)
        alpha == QRat(alpha_of(p), G)
        r1 == QNeg(QAdd(alpha, root))
        r2 == QNeg(QSub(alpha, root))
        x0 == QInt(p.x0, G)
        v0 == QInt(p.v0, G)
        A == QDiv(QSub(QMul(r2, x0), v0), QSub(r2, r1))
        B == QDiv(QSub(v0, QMul(r1, x0)), QSub(r2, r1))
    IN  [x |-> QAdd(QMul(A, QInt(1, G)), QMul(B, QInt(1, G))),
         v |-> QAdd(QMul(QMul(A, r1), QInt(1, G)), QMul(QMul(B, r2), QInt(1, G)))]

(* The real values of (x[0], v[0]) of analytical_solution(p, [0.0]). *)
analytical_at_0(p) ==
    LET b == analytical_branch(p)
    IN  IF b = UNDAMPED THEN undamped_at_0(p)
        ELSE IF b = UNDERDAMPED THEN underdamped_at_0(p)
        ELSE IF b = CRITICALLY_DAMPED THEN critical_at_0(p)
        ELSE overdamped_at_0(p)

(* Whether a float operation of the branch can round on the way to x[0]    *)
(* and v[0].  x[0] is A*1 + B*0 = x0 in the first three branches, which no *)
(* rounding touches; in the overdamped branch it is the sum A + B of two   *)
(* rounded quotients (which cancel exactly when x0 = 0).  v[0] goes        *)
(* through the rounded omega_n, omega_d or r1, r2 unless the terms vanish. *)
x_can_round(p) ==
    analytical_branch(p) = OVERDAMPED /\ p.x0 # 0

v_can_round(p) ==
    LET b == analytical_branch(p)
    IN  IF b = UNDAMPED THEN p.v0 # 0
        ELSE IF b = CRITICALLY_DAMPED THEN p.v0 # 0 /\ p.x0 # 0
        ELSE p.x0 # 0 \/ p.v0 # 0

(* The sign of the rounding error of a float result: 0 when the result is  *)
(* the real value.                                                         *)
rounding(can_round) == IF can_round THEN {-1, 0, 1} ELSE {0}

(* analytical_solution(params, np.array([0.0])): the real values of the    *)
(* two results and the sign of the rounding error of each.                 *)
analytical_solution_at_0 ==
    /\ ~analytic0.done
    /\ \E x_err \in rounding(x_can_round(params)),
          v_err \in rounding(v_can_round(params)) :
          analytic0' = [done |-> TRUE, branch |-> analytical_branch(params),
                        x |-> analytical_at_0(params).x,
                        v |-> analytical_at_0(params).v,
                        x_err |-> x_err, v_err |-> v_err]
    /\ UNCHANGED <<coreVars, heap, trajs, csv, conclusions, js_samples, anim>>

---------------------------------------------------------------------------
(* Rational bounds of pi^2 (9.8696 < pi^2 < 9.8697). *)
PiSqLow == Frac(98696, 10000)
PiSqHigh == Frac(98697, 10000)

(* fft_result['freq_error'] < 5, as the set of truth values it can take.   *)
(* A zero freq_error is below 5.  Otherwise the test is                    *)
(* 0.95 * tf < dominant_freq < 1.05 * tf for tf = omega_d / (2 pi), on     *)
(* squares 0.9025 * omega_d^2 < 4 pi^2 * dominant_freq^2 < 1.1025 *        *)
(* omega_d^2, decided where the bounds of pi^2 agree.                      *)
freq_error_below_5(fe) ==
    IF fe.zero THEN {TRUE}
    ELSE LET dom_sq == RMul(fe.dominant_freq, fe.dominant_freq)
             low == RMul(<<4, 1>>, RMul(PiSqLow, dom_sq))
             high == RMul(<<4, 1>>, RMul(PiSqHigh, dom_sq))
             lower == RMul(Frac(9025, 10000), fe.sq_times_4pi2)
             upper == RMul(Frac(11025, 10000), fe.sq_times_4pi2)
         IN  IF RLt(lower, low) /\ RLt(high, upper) THEN {TRUE}
             ELSE IF ~RLt(lower, high) \/ ~RLt(low, upper) THEN {FALSE}
             ELSE {TRUE, FALSE}

(* generate_conclusions(solution, validation, fft_result), where each of   *)
(* the optional arguments is the stored result or None: the sections the   *)
(* text holds.  Section 5 is entered when fft_result is given and          *)
(* params.zeta < 1; it prints theoretical_freq and, when freq_error < 5,   *)
(* the line "FFT konsisten dengan teori".                                  *)
generate_conclusions(with_validation, with_fft) ==
    /\ pc = "returned"
    /\ ~conclusions.done
    /\ with_validation => (validation.done /\ ~validation.raised)
    /\ with_fft => (fft_result.done /\ ~fft_result.raised)
    /\ LET spectral == with_fft /\ zeta_lt_1(params)   \* params = solution['params']
       IN  \E below \in (IF spectral THEN freq_error_below_5(fft_result.freq_error)
                         ELSE {FALSE}) :
              conclusions' =
                 [done |-> TRUE,
                  validation_section |-> with_validation,
                  spectral_section |-> spectral,
                  theoretical_freq |-> IF spectral THEN fft_result.theoretical_freq
                                       ELSE [zero |-> TRUE],
                  consistent_line |-> spectral /\ below]
    /\ UNCHANGED <<coreVars, heap, trajs, csv, js_samples, anim, analytic0>>

---------------------------------------------------------------------------
(* Assignment to a field of a SpringParameters by code holding the object. *)
(* The class is a plain @dataclass (not frozen): the assignment succeeds.  *)
SetField(field, value) ==
    /\ params' = [params EXCEPT ![field] = value]
    /\ UNCHANGED <<solveVars, fp_rounds_up, dtype, branch, analysisVars, outerVars>>

---------------------------------------------------------------------------
(* PRESETS with a car suspension of half the damping (faulty variant) is   *)
(* the first table below; the second is PRESETS.  Lengths are in units of 0.05 m (x0, and v0 per second);       *)
(* lab_spring (m = 0.5, k = 20, c = 0.1) is held in tenths (m, k, c times  *)
(* 10), which leaves zeta = c/(2*sqrt(k*m)) as it is.                      *)
PRESETS_soft_suspension ==
    [key \in {"car_suspension", "trampoline", "lab_spring", "spring_mass", "door_closer"} |->
        CASE key = "car_suspension" -> SpringParameters(400, 40000, 3600, 1, 0)
          [] key = "trampoline"     -> SpringParameters(15, 5000, 100, 6, -40)
          [] key = "lab_spring"     -> SpringParameters(5, 200, 1, 2, 0)
          [] key = "spring_mass"    -> SpringParameters(1, 100, 2, 4, 0)
          [] key = "door_closer"    -> SpringParameters(5, 50, 50, 20, 0)]

PRESETS ==
    [key \in {"car_suspension", "trampoline", "lab_spring", "spring_mass", "door_closer"} |->
        CASE key = "car_suspension" -> SpringParameters(400, 40000, 7200, 1, 0)
          [] key = "trampoline"     -> SpringParameters(15, 5000, 100, 6, -40)
          [] key = "lab_spring"     -> SpringParameters(5, 200, 1, 2, 0)
          [] key = "spring_mass"    -> SpringParameters(1, 100, 2, 4, 0)
          [] key = "door_closer"    -> SpringParameters(5, 50, 50, 20, 0)]

(* params = PRESETS[selected_key] (app.py) followed by                     *)
(* solve_spring_system(params, ...): the arrays of the returned dictionary *)
(* are new, its 'params' entry is the object that was passed in, i.e. the  *)
(* object the preset table holds.  x is the first sample and one more.     *)
integrate_preset(selected_key, x1) ==
    /\ Len(trajs) < 2
    /\ trajs' = Append(trajs, [params |-> selected_key,
                                x |-> <<heap[selected_key].x0, x1>>])
    /\ UNCHANGED <<coreVars, heap, csv, conclusions, js_samples, anim, analytic0>>

(* solution['params'].<field> = value on the i-th returned trajectory. *)
set_trajectory_param(i, field, value) ==
    /\ i \in DOMAIN trajs
    /\ heap' = [heap EXCEPT ![trajs[i].params][field] = value]
    /\ UNCHANGED <<coreVars, trajs, csv, conclusions, js_samples, anim, analytic0>>

(* solution['x'][j] = value on the i-th returned trajectory. *)
set_trajectory_sample(i, j, value) ==
    /\ i \in DOMAIN trajs
    /\ trajs' = [trajs EXCEPT ![i].x[j] = value]
    /\ UNCHANGED <<coreVars, heap, csv, conclusions, js_samples, anim, analytic0>>

---------------------------------------------------------------------------
(* CSV export.  A printed number is held as its sign, its integer digits   *)
(* and its six decimals (as a number 0..999999).                           *)

(* f"{value:.6f}" cutting the decimals off instead of rounding (faulty     *)
(* variant). *)
format_6f_truncating(r) ==
    LET digits == (Abs(r[1]) * 1000000) \div r[2]
    IN  [negative |-> r[1] < 0, whole |-> digits \div 1000000,
         decimals |-> digits % 1000000]

(* f"{value:.6f}" of the rational r = <<n, d>>: |r| * 10^6 rounded to the  *)
(* nearest integer, ties to even.                                          *)
format_6f(r) ==
    LET scaled == Abs(r[1]) * 1000000
        q == scaled \div r[2]
        rem == scaled % r[2]
        digits == IF 2 * rem > r[2] \/ (2 * rem = r[2] /\ q % 2 = 1) THEN q + 1 ELSE q
    IN  [negative |-> r[1] < 0, whole |-> digits \div 1000000,
         decimals |-> digits % 1000000]

(* float(text) of a printed number *)
parse_float(text) ==
    LET n == text.whole * 1000000 + text.decimals
    IN  Frac(IF text.negative THEN -n ELSE n, 1000000)

CsvHeader == <<"t(s)", "x(m)", "v(m/s)", "a(m/s2)", "KE(J)", "PE(J)", "E_total(J)">>

(* The seven values export_to_csv prints for sample i, as rationals. *)
csv_columns(sol, i) ==
    <<Frac(sol.t[i], 1), Frac(sol.x[i], 1), Frac(sol.v[i], 1), sol.a[i],
      sol.KE[i], sol.PE[i], sol.E_total[i]>>

(* export_to_csv(solution): the header line, then one line per sample. *)
export_to_csv ==
    /\ pc = "returned"
    /\ ~csv.done
    /\ csv' = [done |-> TRUE,
               header |-> CsvHeader,
               rows |-> [i \in 1..Len(solution.t) |->
                          [col \in 1..7 |-> format_6f(csv_columns(solution, i)[col])]]]
    /\ UNCHANGED <<coreVars, heap, trajs, conclusions, js_samples, anim, analytic0>>

---------------------------------------------------------------------------
(* "max 500 points" of the animation data (app.py). *)
MaxPoints == 500

(* The indices of data[::sample_step] for an array of n elements. *)
strided_indices(n, sample_step) ==
    [i \in 1..CeilDiv(n, sample_step) |-> (i - 1) * sample_step]

(* sample_step = max(1, len(t_data) // 500) *)
sample_step_of(n) == IF n \div MaxPoints > 1 THEN n \div MaxPoints ELSE 1

(* The animation tab: t_js = t_data[::sample_step] (x_js, v_js, E_js       *)
(* alike) for a trajectory of n samples.                                   *)
prepare_animation_data(n) ==
    /\ ~js_samples.done
    /\ js_samples' = [done |-> TRUE, n |-> n, sample_step |-> sample_step_of(n),
                      indices |-> strided_indices(n, sample_step_of(n))]
    /\ UNCHANGED <<coreVars, heap, trajs, csv, conclusions, anim, analytic0>>

---------------------------------------------------------------------------
(* The two browser animations of app.py: the spring animation (frameIdx,   *)
(* totalFrames, animate(currentTime), togglePlay, resetAnim, changeSpeed,  *)
(* seekFrame) and the phase-space animation (currentIdx, totalPoints,      *)
(* animate(), togglePhase, resetPhase, updateTrail).  Each runs in its own *)
(* frame; anim holds the state of the one that is loaded.  Browser time is *)
(* counted in thirds of a millisecond, so that the 60 Hz callback interval *)
(* (16.67 ms) is the whole number 50 and 16 ms is 48.                      *)
ANIMATION_FPS == 60
FrameDelayMs == 16

CallbackInterval == 3000 \div ANIMATION_FPS

(* The options of speedSelect, 0.25x 0.5x 1x 2x 4x, in quarters. *)
Speeds == {1, 2, 4, 8, 16}
DefaultSpeed == 4 * 1

(* The options of trailLength (the last one is the number of points). *)
TrailLengths(totalPoints) == {20, 50, 100, totalPoints}

(* 16 / speed, in thirds of a millisecond, for a speed in quarters. *)
frame_threshold(speed) == (FrameDelayMs * 3 * 4) \div speed

(* if (deltaTime > 16 / speed) *)
frame_due(deltaTime, speed) == deltaTime > frame_threshold(speed)

(* frameIdx++; if (frameIdx > totalFrames) frameIdx = 0;  (a wrap that     *)
(* comes one frame late)                                                   *)
next_frame_late(frameIdx, totalFrames) ==
    IF frameIdx + 1 > totalFrames THEN 0 ELSE frameIdx + 1

(* frameIdx++; if (frameIdx >= totalFrames) frameIdx = 0; *)
next_frame(frameIdx, totalFrames) ==
    IF frameIdx + 1 >= totalFrames THEN 0 ELSE frameIdx + 1

(* The script up to its initial draw(): the data of totalFrames samples is *)
(* in place, the first frame is drawn, nothing plays.  elapsed is          *)
(* currentTime - lastTime of the next callback so far; drawn is the index  *)
(* the last draw() used; op names the last handler that ran; phase,        *)
(* callbacks, advanced and steady observe the playback since the last      *)
(* press of Play: the delay of its first callback, the callbacks it got,   *)
(* the frames it advanced after the first Warm callbacks, and whether the  *)
(* speed was left alone.                                                   *)
load_animation(kind, totalFrames) ==
    /\ ~anim.loaded
    /\ anim' = [loaded |-> TRUE, kind |-> kind, totalFrames |-> totalFrames,
                frameIdx |-> 0, isPlaying |-> FALSE, speed |-> DefaultSpeed,
                elapsed |-> 0, scheduled |-> FALSE, drawn |-> 0,
                trailLength |-> 50, op |-> "load",
                phase |-> 0, callbacks |-> 0, advanced |-> 0, steady |-> FALSE]
    /\ UNCHANGED <<coreVars, heap, trajs, csv, conclusions, js_samples, analytic0>>

(* togglePlay(): Play sets lastTime = performance.now() and calls          *)
(* animate(lastTime), which finds deltaTime = 0, draws nothing and         *)
(* requests the next callback (it arrives after first_delay); Pause        *)
(* cancels the requested callback.                                         *)
togglePlay(first_delay) ==
    /\ anim.loaded /\ anim.kind = "spring"
    /\ anim' = IF ~anim.isPlaying
               THEN [anim EXCEPT !.isPlaying = TRUE, !.elapsed = 0,
                                 !.scheduled = TRUE, !.op = "play",
                                 !.phase = first_delay, !.callbacks = 0,
                                 !.advanced = 0, !.steady = TRUE]
               ELSE [anim EXCEPT !.isPlaying = FALSE, !.scheduled = FALSE,
                                 !.op = "pause"]
    /\ UNCHANGED <<coreVars, heap, trajs, csv, conclusions, js_samples, analytic0>>

(* One requestAnimationFrame callback animate(currentTime) of the spring   *)
(* animation, interval after the previous one (the first one after Play    *)
(* comes after the delay chosen there).                                    *)
animate(interval) ==
    /\ anim.loaded /\ anim.kind = "spring"
    /\ anim.scheduled /\ anim.isPlaying
    /\ anim.callbacks < Warm + Window
    /\ LET deltaTime == anim.elapsed
                        + (IF anim.callbacks = 0 THEN anim.phase ELSE interval)
           idx == next_frame(anim.frameIdx, anim.totalFrames)
       IN  anim' = IF frame_due(deltaTime, anim.speed)
                   THEN [anim EXCEPT !.frameIdx = idx, !.drawn = idx,
                                     !.elapsed = 0, !.op = "advance",
                                     !.callbacks = @ + 1,
                                     !.advanced = IF anim.callbacks >= Warm
                                                  THEN @ + 1 ELSE @]
                   ELSE [anim EXCEPT !.elapsed = deltaTime, !.op = "wait",
                                     !.callbacks = @ + 1]
    /\ UNCHANGED <<coreVars, heap, trajs, csv, conclusions, js_samples, analytic0>>

(* resetAnim(): frameIdx = 0; draw(); *)
resetAnim ==
    /\ anim.loaded /\ anim.kind = "spring"
    /\ anim' = [anim EXCEPT !.frameIdx = 0, !.drawn = 0, !.op = "reset"]
    /\ UNCHANGED <<coreVars, heap, trajs, csv, conclusions, js_samples, analytic0>>

(* changeSpeed(): speed = parseFloat(speedSelect.value) *)
changeSpeed(value) ==
    /\ anim.loaded /\ anim.kind = "spring"
    /\ anim' = [anim EXCEPT !.speed = value, !.op = "speed", !.steady = FALSE]
    /\ UNCHANGED <<coreVars, heap, trajs, csv, conclusions, js_samples, analytic0>>

(* seekFrame(val): the slider runs from 0 to len(t_js) - 1;                *)
(* frameIdx = parseInt(val); if (!isPlaying) draw();                       *)
seekFrame(val) ==
    /\ anim.loaded /\ anim.kind = "spring"
    /\ val \in 0..(anim.totalFrames - 1)
    /\ anim' = [anim EXCEPT !.frameIdx = val, !.op = "seek",
                            !.drawn = IF anim.isPlaying THEN @ ELSE val]
    /\ UNCHANGED <<coreVars, heap, trajs, csv, conclusions, js_samples, analytic0>>

(* togglePhase(): Play calls animate() at once, which advances and draws a *)
(* frame and requests the next callback; Pause cancels it.                 *)
togglePhase ==
    /\ anim.loaded /\ anim.kind = "phase"
    /\ LET idx == next_frame(anim.frameIdx, anim.totalFrames)
       IN  anim' = IF ~anim.isPlaying
                   THEN [anim EXCEPT !.isPlaying = TRUE, !.scheduled = TRUE,
                                     !.frameIdx = idx, !.drawn = idx,
                                     !.op = "play"]
                   ELSE [anim EXCEPT !.isPlaying = FALSE, !.scheduled = FALSE,
                                     !.op = "pause"]
    /\ UNCHANGED <<coreVars, heap, trajs, csv, conclusions, js_samples, analytic0>>

(* One callback animate() of the phase-space animation. *)
animate_phase ==
    /\ anim.loaded /\ anim.kind = "phase"
    /\ anim.scheduled /\ anim.isPlaying
    /\ LET idx == next_frame(anim.frameIdx, anim.totalFrames)
       IN  anim' = [anim EXCEPT !.frameIdx = idx, !.drawn = idx, !.op = "advance"]
    /\ UNCHANGED <<coreVars, heap, trajs, csv, conclusions, js_samples, analytic0>>

(* resetPhase(): currentIdx = 0; drawPhase(); *)
resetPhase ==
    /\ anim.loaded /\ anim.kind = "phase"
    /\ anim' = [anim EXCEPT !.frameIdx = 0, !.drawn = 0, !.op = "reset"]
    /\ UNCHANGED <<coreVars, heap, trajs, csv, conclusions, js_samples, analytic0>>

(* updateTrail(): trailLength = parseInt(...); if (!isPlaying) drawPhase(); *)
updateTrail(value) ==
    /\ anim.loaded /\ anim.kind = "phase"
    /\ value \in TrailLengths(anim.totalFrames)
    /\ anim' = [anim EXCEPT !.trailLength = value, !.op = "trail",
                            !.drawn = IF anim.isPlaying THEN @ ELSE anim.frameIdx]
    /\ UNCHANGED <<coreVars, heap, trajs, csv, conclusions, js_samples, analytic0>>

(* The playback of the spring animation after n callbacks at 60 Hz, the    *)
(* first one first_delay after Play, at a speed left alone: the time since *)
(* lastTime and the frames advanced after the first Warm callbacks.        *)
RECURSIVE playback(_, _, _)
playback(speed, first_delay, n) ==
    IF n = 0 THEN [elapsed |-> 0, advanced |-> 0]
    ELSE LET before == playback(speed, first_delay, n - 1)
             deltaTime == before.elapsed
                          + (IF n = 1 THEN first_delay ELSE CallbackInterval)
         IN  IF frame_due(deltaTime, speed)
             THEN [elapsed |-> 0,
                   advanced |-> before.advanced + (IF n > Warm THEN 1 ELSE 0)]
             ELSE [elapsed |-> deltaTime, advanced |-> before.advanced]
(* app.py, line 504: solve_spring_system(params, (0, t_max), dt=0.001,     *)
(* F_ext=F_ext).  app.py imports solve_spring_system from a top-level      *)
(* module spring_physics.  When physics_config/spring_physics.py serves    *)
(* that import, the keywords dt and F_ext are not parameters of the        *)
(* function (they are time_step and external_force_function) and the call  *)
(* raises TypeError; when a module whose function takes these keywords     *)
(* serves it, the call integrates.  Durations and the step are whole ticks.*)
app_solve(t_max, F_ext) ==
    \/ /\ pc = "idle"
       /\ pc' = "error"
       /\ error' = "TypeError"
       /\ UNCHANGED <<time_span, time_step, force, solution, odeint_calls,
                      solver_converged, params, fp_rounds_up, dtype, branch,
                      analysisVars, outerVars>>
    \/ solve_spring_system(<<0, t_max>>, 1, F_ext)

(* One call F(t) of a force generator; the value it returned is logged. *)
ForceCall(F, t) ==
    /\ Len(force_log) < MaxCalls
    /\ force_log' = Append(force_log, [F |-> F, t |-> t, value |-> call_force(F, t)])
    /\ UNCHANGED <<solveVars, params, fp_rounds_up, dtype, branch,
                   validation, fft_result, period, resonance, outerVars>>

---------------------------------------------------------------------------
StepAmplitude == 10
StepStart == 1

(* Valid requests explored for the integrator: m > 0, k > 0, c >= 0,       *)
(* t1 > t0, step > 0.                                                      *)
ParamSpace ==
    {SpringParameters(m, k, c, x0, v0) :
        m \in {1, 2}, k \in {1, 2}, c \in {0, 1}, x0 \in {0, 1}, v0 \in {-1, 0}}
Spans == {sp \in (0..1) \X (1..MaxT) : sp[2] > sp[1]}
Steps == 1..MaxStep
(* F_ext = None, or step_force(10.0, 1.0) as the UI builds it. *)
Forces == {NoForce, step_force(StepAmplitude, StepStart)}

InitCommon ==
    /\ pc = "idle"
    /\ time_span = <<0, 0>>
    /\ time_step = 0
    /\ force = NoForce
    /\ solution = NoSolution
    /\ odeint_calls = 0
    /\ error = "none"
    /\ solver_converged = TRUE
    /\ dtype = "none"
    /\ branch = "none"
    /\ force_log = <<>>
    /\ validation = NoValidation
    /\ fft_result = NoSpectrum
    /\ period = NoPeriod
    /\ resonance = NoResonance
    /\ heap = PRESETS
    /\ trajs = <<>>
    /\ csv = NoCsv
    /\ conclusions = NoConclusions
    /\ js_samples = NoSamples
    /\ anim = NoAnimation
    /\ analytic0 = NoAnalytic

Init == InitCommon /\ fp_rounds_up \in BOOLEAN /\ params \in ParamSpace

Next == \E span \in Spans, dt \in Steps, F \in Forces : solve_spring_system(span, dt, F)

Spec == Init /\ [][Next]_vars

(* Arbitrary requests, the invalid ones included (mass -1, stiffness 0 or  *)
(* -1, step 0 or -1, t1 <= t0).  Mass 0 is left out: the quotient by it is *)
(* not a number.                                                           *)
AnyParamSpace ==
    {SpringParameters(m, k, 0, 1, 0) : m \in {-1, 1, 2}, k \in {-1, 0, 1, 2}}
AnySpans == (0..1) \X (0..MaxT)
AnySteps == (-1)..MaxStep

InitAny == InitCommon /\ fp_rounds_up \in BOOLEAN /\ params \in AnyParamSpace

NextAny == \E span \in AnySpans, dt \in AnySteps, F \in Forces : solve_spring_system(span, dt, F)

SpecAny == InitAny /\ [][NextAny]_vars

(* Force generators called directly, at any times in any order. *)
ForceGenerators == {no_force, step_force(StepAmplitude, StepStart), step_force(-1, 2)}
CallTimes == 0..MaxT

InitForce == InitCommon /\ fp_rounds_up = FALSE /\ params = SpringParameters(1, 1, 0, 1, 0)

NextForce == \E F \in ForceGenerators, t \in CallTimes : ForceCall(F, t)

SpecForce == InitForce /\ [][NextForce]_vars

(* Unforced requests whose trajectory is then validated against the        *)
(* analytical positions; x0 = 100 puts the 1% threshold at one unit.       *)
ValidateParamSpace ==
    {SpringParameters(1, 1, c, x0, 0) : c \in {0, 1}, x0 \in {0, 100}}
ValidateSpans == {<<0, n>> : n \in {0, 1, 2, 4}}

InitValidate == InitCommon /\ fp_rounds_up = FALSE /\ params \in ValidateParamSpace

NextValidate ==
    \/ \E span \in ValidateSpans : solve_spring_system(span, 1, NoForce)
    \/ validate_numerical_solution

SpecValidate == InitValidate /\ [][NextValidate]_vars

(* One run of the app script in custom mode (v0 = 0.0): the settings, the  *)
(* integration, then the validation tab, which calls                       *)
(* validate_numerical_solution(solution) whatever force was selected.      *)
AppParamSpace ==
    {SpringParameters(1, k, c, x0, 0) : k \in {1, 2}, c \in {0, 1}, x0 \in {0, 1}}
AppDurations == {1, 2}

InitApp == InitCommon /\ fp_rounds_up = FALSE /\ params \in AppParamSpace

NextApp ==
    \/ \E t_max \in AppDurations, F_ext \in Forces : app_solve(t_max, F_ext)
    \/ validate_numerical_solution

SpecApp == InitApp /\ [][NextApp]_vars

(* Trajectories handed to frequency_analysis: every length whose           *)
(* transform is rational, for an undamped and a critically damped system.  *)
FFTParamSpace == {SpringParameters(1, 25, c, x0, 0) : c \in {0, 10}, x0 \in {0, 1}}
FFTSpans == {<<0, n>> : n \in {1, 2, 3, 4, 6}}
(* Solver rows of these trajectories: positions -1, 0, 1 (the transform    *)
(* reads positions only). *)
FFTRows == {<<-1, 0>>, <<0, 0>>, <<1, 0>>}

InitFFT == InitCommon /\ fp_rounds_up = FALSE /\ params \in FFTParamSpace

NextFFT ==
    \/ \E span \in FFTSpans : solve_spring_system_on(span, 1, NoForce, FFTRows)
    \/ frequency_analysis

SpecFFT == InitFFT /\ [][NextFFT]_vars

(* Parameters on both sides of zeta = 0.9 (m = 1: zeta = c/10 for k = 25,  *)
(* c/20 for k = 100), each with a three-sample trajectory, for period and  *)
(* the theoretical frequency of frequency_analysis.                        *)
PeriodParamSpace ==
    {SpringParameters(m, k, c, 1, 0) : m \in {1, 2}, k \in {25, 100}, c \in 0..ClassMaxC}

InitPeriod == InitCommon /\ fp_rounds_up = FALSE /\ params \in PeriodParamSpace

NextPeriod ==
    \/ solve_spring_system(<<0, 3>>, 1, NoForce)
    \/ PeriodCall
    \/ frequency_analysis

SpecPeriod == InitPeriod /\ [][NextPeriod]_vars

(* A caller holding the SpringParameters of a request, next to the core's  *)
(* readers of it.                                                          *)
FieldNames == {"m", "k", "c", "x0", "v0"}
FieldValues == {1, 2}

InitMutate == InitCommon /\ fp_rounds_up = FALSE /\ params \in ParamSpace

NextMutate ==
    \/ \E field \in FieldNames, value \in FieldValues : SetField(field, value)
    \/ DampingTypeCall
    \/ AnalyticalSolutionCall
    \/ ResonanceAnalysisCall

SpecMutate == InitMutate /\ [][NextMutate]_vars

(* Two integrations of presets, then writes through what the returned      *)
(* trajectories reference.                                                 *)
InitShare == InitCommon /\ fp_rounds_up = FALSE /\ params = PRESETS["spring_mass"]

NextShare ==
    \/ \E key \in DOMAIN PRESETS, x1 \in {0, 1} : integrate_preset(key, x1)
    \/ \E i \in 1..2, field \in {"m", "x0"} : set_trajectory_param(i, field, 0)
    \/ \E i \in 1..2, j \in 1..2 : set_trajectory_sample(i, j, 9)

SpecShare == InitShare /\ [][NextShare]_vars

(* Each preset, read by the classification, the analytical solver, the     *)
(* resonance analysis and the period.                                      *)
InitPresets ==
    InitCommon /\ fp_rounds_up = FALSE /\ params \in {PRESETS[key] : key \in DOMAIN PRESETS}

NextPresets ==
    \/ DampingTypeCall
    \/ AnalyticalSolutionCall
    \/ ResonanceAnalysisCall
    \/ PeriodCall
    \/ solve_spring_system(<<0, 1>>, 1, NoForce)

SpecPresets == InitPresets /\ [][NextPresets]_vars

(* Trajectories exported to CSV; masses 3 and 7 give accelerations and     *)
(* energies that six decimals do not hold exactly.                         *)
CsvParamSpace ==
    {SpringParameters(m, k, c, x0, v0) :
        m \in {3, 7}, k \in {1, 2}, c \in {0, 1}, x0 \in {0, 1}, v0 \in {-1, 0}}

InitCsv == InitCommon /\ fp_rounds_up = FALSE /\ params \in CsvParamSpace

NextCsv ==
    \/ \E n \in {1, 2, 3}, F \in Forces : solve_spring_system(<<0, n>>, 1, F)
    \/ export_to_csv

SpecCsv == InitCsv /\ [][NextCsv]_vars

(* The animation data of trajectories of every length up to MaxLength. *)
InitSample == InitCommon /\ fp_rounds_up = FALSE /\ params = PRESETS["spring_mass"]

NextSample == \E n \in 1..MaxLength : prepare_animation_data(n)

SpecSample == InitSample /\ [][NextSample]_vars

(* The conclusions of trajectories with zeta = 0, 0.9 and 1 (m = 1,        *)
(* k = 25, c = 0, 9, 10) and of an undamped one whose theoretical          *)
(* frequency sqrt(22/5)/(2 pi) = 0.3338 Hz is next to the bin 1/3 Hz of a  *)
(* three-sample spectrum, with and without the spectrum.                   *)
ConcludeParamSpace ==
    {SpringParameters(1, 25, c, x0, 0) : c \in {0, 9, 10}, x0 \in {0, 1}}
        \cup {SpringParameters(5, 22, 0, 1, 0)}

InitConclude == InitCommon /\ fp_rounds_up = FALSE /\ params \in ConcludeParamSpace

NextConclude ==
    \/ \E n \in {3, 4} : solve_spring_system_on(<<0, n>>, 1, NoForce, FFTRows)
    \/ frequency_analysis
    \/ validate_numerical_solution
    \/ \E with_validation, with_fft \in BOOLEAN :
          generate_conclusions(with_validation, with_fft)

SpecConclude == InitConclude /\ [][NextConclude]_vars

(* analytical_solution at t = 0 over parameters of all four branches       *)
(* (critical ones with zeta = 1 and with zeta^2 = 9/8).                    *)
AnalyticParamSpace ==
    {SpringParameters(m, k, c, x0, v0) :
        m \in {1, 2}, k \in {1, 2, 4}, c \in {0, 1, 2, 3, 4, 6},
        x0 \in {-1, 0, 2}, v0 \in {-1, 0, 3}}

InitAnalytic == InitCommon /\ fp_rounds_up = FALSE /\ params \in AnalyticParamSpace

NextAnalytic == analytical_solution_at_0 \/ AnalyticalSolutionCall

SpecAnalytic == InitAnalytic /\ [][NextAnalytic]_vars

(* Both animations under every order of their handlers; callbacks come     *)
(* half, one or four 60 Hz intervals apart.                                *)
Intervals == {CallbackInterval \div 2, CallbackInterval, 4 * CallbackInterval}

InitAnim == InitCommon /\ fp_rounds_up = FALSE /\ params = PRESETS["spring_mass"]

NextAnim ==
    \/ \E kind \in {"spring", "phase"}, n \in 1..MaxFrames : load_animation(kind, n)
    \/ \E d \in Intervals : togglePlay(d)
    \/ \E d \in Intervals : animate(d)
    \/ resetAnim
    \/ \E s \in Speeds : changeSpeed(s)
    \/ \E val \in 0..(MaxFrames - 1) : seekFrame(val)
    \/ togglePhase
    \/ animate_phase
    \/ resetPhase
    \/ \E value \in TrailLengths(MaxFrames) : updateTrail(value)

SpecAnim == InitAnim /\ [][NextAnim]_vars

(* The spring animation with its callbacks at a fixed 60 Hz: the first one *)
(* comes half an interval or a whole interval after Play.                  *)
FirstDelays == {CallbackInterval \div 2, CallbackInterval}

NextSpeed ==
    \/ \E n \in 1..MaxFrames : load_animation("spring", n)
    \/ \E d \in FirstDelays : togglePlay(d)
    \/ animate(CallbackInterval)
    \/ \E s \in Speeds : changeSpeed(s)

SpecSpeed == InitAnim /\ [][NextSpeed]_vars
(* Parameters explored for the damping classification (valid ones). *)
ClassParamSpace ==
    {SpringParameters(m, k, c, 1, 0) :
        m \in 1..ClassMaxM, k \in 1..ClassMaxK, c \in 0..ClassMaxC}

InitClass == InitCommon /\ params \in ClassParamSpace /\ fp_rounds_up = FALSE

NextClass == DampingTypeCall \/ AnalyticalSolutionCall \/ ResonanceAnalysisCall

SpecClass == InitClass /\ [][NextClass]_vars

---------------------------------------------------------------------------
(* Shorthands for the properties. *)
Returned == pc = "returned"
Samples == 1..Len(solution.t)
ValidCall == time_span[2] > time_span[1] /\ time_step > 0
SpanLen == time_span[2] - time_span[1]

(* C1: for m > 0, k > 0, c >= 0, damping_type is UNDAMPED when c = 0;      *)
(* otherwise CRITICALLY_DAMPED when zeta is within 10% of 1 (0.9 <= zeta   *)
(* <= 1.1, i.e. 81*4km <= 100c^2 <= 121*4km); otherwise UNDERDAMPED when   *)
(* zeta < 1 (c^2 < 4km); otherwise OVERDAMPED.  m=1, k=100, c=20 is        *)
(* CRITICALLY_DAMPED.                                                      *)
C1_Regime(p) ==
    IF p.c = 0 THEN UNDAMPED
    ELSE IF 324 * p.k * p.m <= 100 * p.c * p.c /\ 100 * p.c * p.c <= 484 * p.k * p.m
         THEN CRITICALLY_DAMPED
    ELSE IF p.c * p.c < 4 * p.k * p.m THEN UNDERDAMPED
    ELSE OVERDAMPED

C2_SameBranch ==
    (dtype # "none" /\ branch # "none") => branch = dtype

(* C3 as claimed: for t1 > t0 and step > 0 the grid is t_i = t0 + i*step   *)
(* with exactly floor((t1-t0)/step) samples.                               *)
C3_FloorGrid ==
    (Returned /\ ValidCall) =>
        /\ Len(solution.t) = SpanLen \div time_step
        /\ \A i \in Samples : solution.t[i] = time_span[1] + (i - 1) * time_step

(* C3 amended: for t1 > t0 and step > 0 the grid is t_i = t0 + i*step for  *)
(* i = 0 .. n-1, where n is the ceiling of (t1-t0)/step, or one more than  *)
(* the quotient when it is integral and rounding pushes it up; so          *)
(* ceil((t1-t0)/step) <= n <= floor((t1-t0)/step) + 1.                     *)
C3_CeilGrid ==
    (Returned /\ ValidCall) =>
        /\ CeilDiv(SpanLen, time_step) <= Len(solution.t)
        /\ Len(solution.t) <= (SpanLen \div time_step) + 1
        /\ \A i \in Samples : solution.t[i] = time_span[1] + (i - 1) * time_step

C3_Witness ==
    /\ Returned /\ ValidCall
    /\ SpanLen % time_step # 0
    /\ Len(solution.t) = (SpanLen \div time_step) + 1
    /\ Len(solution.t) >= 2

(* C4: for t1 > t0 and step > 0, t is strictly increasing, consecutive     *)
(* samples differ by exactly step, the first sample is t0 and every sample *)
(* is strictly below t1.                                                   *)
C4_HalfOpenGrid ==
    (Returned /\ ValidCall) =>
        /\ Len(solution.t) >= 1 /\ solution.t[1] = time_span[1]
        /\ \A i \in Samples : i > 1 =>
              /\ solution.t[i - 1] < solution.t[i]
              /\ solution.t[i] - solution.t[i - 1] = time_step
        /\ \A i \in Samples : solution.t[i] < time_span[2]

(* C5: the eight sequences of a returned trajectory have the same number   *)
(* of entries.                                                             *)
C5_EqualLengths ==
    Returned =>
        /\ Len(solution.x) = Len(solution.t)
        /\ Len(solution.v) = Len(solution.t)
        /\ Len(solution.a) = Len(solution.t)
        /\ Len(solution.KE) = Len(solution.t)
        /\ Len(solution.PE) = Len(solution.t)
        /\ Len(solution.E_total) = Len(solution.t)
        /\ Len(solution.E_dissipated) = Len(solution.t)

C5_Witness ==
    Returned /\ Len(solution.t) >= 3 /\ Len(solution.E_dissipated) >= 3

(* C6: for every sample i, KE[i] = 0.5*m*v[i]^2, PE[i] = 0.5*k*x[i]^2 and  *)
(* E_total[i] = KE[i] + PE[i] (rationals n/d compared by cross-multiplying). *)
C6_Energies ==
    Returned =>
        \A i \in Samples :
            LET ke == solution.KE[i]
                pe == solution.PE[i]
                et == solution.E_total[i]
            IN  /\ 2 * ke[1] = params.m * solution.v[i] * solution.v[i] * ke[2]
                /\ 2 * pe[1] = params.k * solution.x[i] * solution.x[i] * pe[2]
                /\ et[1] * ke[2] * pe[2] = (ke[1] * pe[2] + pe[1] * ke[2]) * et[2]
                /\ ke[2] > 0 /\ pe[2] > 0 /\ et[2] > 0

C6_Witness ==
    /\ Returned
    /\ \E i \in Samples :
          /\ i > 1
          /\ solution.KE[i][1] > 0 /\ solution.PE[i][1] > 0
          /\ solution.KE[i] # solution.PE[i]

(* C7: for c >= 0 and step > 0, E_dissipated[0] = 0, E_dissipated[i] =     *)
(* E_dissipated[i-1] + c*v[i]^2*step for i >= 1, the sequence is           *)
(* non-decreasing, and it is identically zero when c = 0.                  *)
C7_Dissipation ==
    (Returned /\ params.c >= 0 /\ time_step > 0) =>
        /\ Len(solution.E_dissipated) >= 1 => solution.E_dissipated[1] = 0
        /\ \A i \in 2..Len(solution.E_dissipated) :
              /\ solution.E_dissipated[i] =
                    solution.E_dissipated[i - 1]
                    + params.c * solution.v[i] * solution.v[i] * time_step
              /\ solution.E_dissipated[i - 1] <= solution.E_dissipated[i]
        /\ params.c = 0 =>
              \A i \in 1..Len(solution.E_dissipated) : solution.E_dissipated[i] = 0

C7_Witness ==
    /\ Returned /\ params.c > 0 /\ time_step > 0
    /\ Len(solution.E_dissipated) >= 3
    /\ solution.v[2] < 0
    /\ solution.E_dissipated[2] > 0
    /\ solution.E_dissipated[3] > solution.E_dissipated[2]

(* C8: the first sample of a returned trajectory is the initial state:     *)
(* x[0] = x0, v[0] = v0 and E_total[0] = 0.5*m*v0^2 + 0.5*k*x0^2, whatever *)
(* force generator is supplied.                                            *)
C8_InitialSample ==
    (Returned /\ Len(solution.x) >= 1) =>
        /\ solution.x[1] = params.x0
        /\ solution.v[1] = params.v0
        /\ 2 * solution.E_total[1][1] =
              (params.m * params.v0 * params.v0 + params.k * params.x0 * params.x0)
              * solution.E_total[1][2]

C8_Witness ==
    /\ Returned /\ Len(solution.x) >= 2
    /\ force.kind = "step"
    /\ params.x0 # params.v0
    /\ solution.x[1] = params.x0

(* C9: for every sample i, a[i] = (F(t[i]) - k*x[i] - c*v[i]) / m with     *)
(* F = 0 when no force generator is supplied, and this is the velocity-    *)
(* derivative component spring_system_derivatives returns for state        *)
(* (x[i], v[i]) at time t[i].                                              *)
C9_ForceAt(tm) ==
    IF force.kind = "step" /\ tm >= force.t_start THEN force.amplitude ELSE 0

C9_Acceleration ==
    Returned =>
        \A i \in Samples :
            /\ solution.a[i][1] * params.m =
                  (C9_ForceAt(solution.t[i]) - params.k * solution.x[i]
                     - params.c * solution.v[i]) * solution.a[i][2]
            /\ solution.a[i][2] > 0
            /\ solution.a[i] =
                  spring_system_derivatives(<<solution.x[i], solution.v[i]>>,
                                            solution.t[i], params, force)[2]

C9_Witness ==
    /\ Returned
    /\ force.kind = "step"
    /\ \E i \in Samples :
          /\ solution.t[i] >= force.t_start
          /\ solution.x[i] = 0 /\ solution.v[i] = 0
          /\ solution.a[i][1] # 0

(* C10: a call with mass <= 0, stiffness <= 0, step <= 0 or t1 <= t0 never *)
(* reaches the ODE solver and never returns a trajectory.                  *)
C10_InvalidCall ==
    \/ params.m <= 0
    \/ params.k <= 0
    \/ time_step <= 0
    \/ time_span[2] <= time_span[1]

C10_FailFast ==
    (pc # "idle" /\ C10_InvalidCall) => (odeint_calls = 0 /\ pc # "returned")

(* C11: when the ODE solver fails to converge, solve_spring_system makes   *)
(* exactly one solver attempt and surfaces an error: it never returns a    *)
(* trajectory dictionary built from the failed solve.                      *)
C11_HardFailure ==
    (pc # "idle" /\ ~solver_converged) => (odeint_calls = 1 /\ pc = "error")

(* C12: force generators are functions of time alone.  Every logged call   *)
(* of no_force returned 0; every logged call of step_force(A, s) at time t *)
(* returned A when t >= s (t = s included) and 0 when t < s; and two calls *)
(* of the same generator at the same time returned the same value,         *)
(* whatever was called in between and in whatever order of times.          *)
C12_Expected(F, t) ==
    IF F.kind = "step" /\ t >= F.t_start THEN F.amplitude ELSE 0

C12_Stateless ==
    /\ \A i \in DOMAIN force_log :
          force_log[i].value = C12_Expected(force_log[i].F, force_log[i].t)
    /\ \A i, j \in DOMAIN force_log :
          (force_log[i].F = force_log[j].F /\ force_log[i].t = force_log[j].t)
              => force_log[i].value = force_log[j].value

(* A step force called at its start time, then at an earlier time, then at *)
(* the start time again. *)
C12_Witness ==
    /\ Len(force_log) = 3
    /\ force_log[1].F = step_force(StepAmplitude, StepStart)
    /\ force_log[2].F = force_log[1].F /\ force_log[3].F = force_log[1].F
    /\ force_log[1].t = StepStart /\ force_log[1].value = StepAmplitude
    /\ force_log[2].t < StepStart /\ force_log[2].value = 0
    /\ force_log[3].t = StepStart /\ force_log[3].value = StepAmplitude

Validated == validation.done /\ ~validation.raised

(* C13: validate_numerical_solution sets is_accurate exactly when          *)
(* rms_error < 0.01 * max|x_analytical|, i.e. when 10000 * sum(error^2)    *)
(* < N * max|x_analytical|^2; with equality, and in particular when both   *)
(* sides are 0, is_accurate is false.                                      *)
C13_IsAccurate ==
    Validated =>
        LET n == Len(solution.x)
            xa == validation.x_analytical
            S == sum_sq([i \in 1..n |-> solution.x[i] - xa[i]], n)
            M == max_abs(xa)
        IN  /\ validation.is_accurate <=> (10000 * S < n * M * M)
            /\ (10000 * S = n * M * M) => ~validation.is_accurate

(* Zero initial position and velocity, a numerical trajectory at rest:     *)
(* rms_error and the analytical maximum are both 0.                        *)
C13_Witness ==
    /\ Validated
    /\ params.x0 = 0 /\ params.v0 = 0
    /\ Len(solution.x) = 4
    /\ validation.rms_error_sq = <<0, 1>>
    /\ max_abs(validation.x_analytical) = 0
    /\ ~validation.is_accurate

(* rms_error equal to a non-zero threshold. *)
C13_EqualNonZero ==
    /\ Validated
    /\ validation.rms_error_sq = <<1, 1>>
    /\ max_abs(validation.x_analytical) = 100
    /\ ~validation.is_accurate

C14_Contribution(i) ==
    IF validation.x_analytical[i] = 0 THEN <<0, 1>>
    ELSE Frac(Abs(solution.x[i] - validation.x_analytical[i]),
              Abs(validation.x_analytical[i]))

RECURSIVE C14_Sum(_)
C14_Sum(i) == IF i = 0 THEN <<0, 1>> ELSE RAdd(C14_Sum(i - 1), C14_Contribution(i))

(* C14: in validate_numerical_solution a sample whose analytical position  *)
(* is 0 contributes 0 to the mean relative error whatever its numerical    *)
(* value, so relative_error is a finite number (never NaN or infinite):    *)
(* 100/N times the sum of |error|/|x_analytical| over the samples with a   *)
(* non-zero analytical position.                                           *)
C14_FiniteRelativeError ==
    Validated =>
        LET n == Len(solution.x)
            total == C14_Sum(n)
        IN  /\ validation.relative_error.kind = "num"
            /\ validation.relative_error.val = Frac(100 * total[1], total[2] * n)

(* A zero analytical sample against a non-zero numerical one (x/0), and a  *)
(* zero analytical sample against a zero numerical one (0/0).              *)
C14_Witness ==
    /\ Validated
    /\ \E i \in 1..Len(solution.x) :
          validation.x_analytical[i] = 0 /\ solution.x[i] # 0
    /\ \E j \in 1..Len(solution.x) :
          validation.x_analytical[j] = 0 /\ solution.x[j] = 0
    /\ \E l \in 1..Len(solution.x) : validation.x_analytical[l] # 0

Analysed == fft_result.done /\ ~fft_result.raised

(* C16: for every trajectory frequency_analysis accepts, the returned      *)
(* frequencies are all strictly positive, amplitudes is as long as         *)
(* frequencies, and dominant_freq is the element of frequencies at the     *)
(* first index whose amplitude is the maximum of amplitudes.               *)
C16_Spectrum ==
    Analysed =>
        LET f == fft_result.frequencies
            a == fft_result.amplitudes_sq
        IN  /\ \A k \in DOMAIN f : f[k][1] > 0 /\ f[k][2] > 0
            /\ Len(a) = Len(f)
            /\ \E i \in DOMAIN f :
                  /\ fft_result.dominant_freq = f[i]
                  /\ \A j \in DOMAIN a : ~RLt(a[i], a[j])
                  /\ \A j \in DOMAIN a : j < i => RLt(a[j], a[i])

(* Six samples, two positive frequencies with equal non-zero amplitudes:   *)
(* the first one is the dominant frequency.                                *)
C16_Witness ==
    /\ Analysed
    /\ Len(fft_result.frequencies) = 2
    /\ fft_result.amplitudes_sq[1] = fft_result.amplitudes_sq[2]
    /\ fft_result.amplitudes_sq[1][1] > 0
    /\ fft_result.dominant_freq = fft_result.frequencies[1]

(* Two positive frequencies, the second with the larger amplitude. *)
C16_SecondDominant ==
    /\ Analysed
    /\ Len(fft_result.frequencies) = 2
    /\ fft_result.dominant_freq = fft_result.frequencies[2]

(* C17: period and frequency_analysis apply the threshold zeta = 0.9       *)
(* alike: period is infinite exactly when zeta >= 0.9 (100 c^2 >= 324 k m),*)
(* which is exactly when theoretical_freq is 0 and freq_error is 0; for    *)
(* zeta < 0.9, theoretical_freq = 1/period (the product of their squares   *)
(* is 1).                                                                  *)
C17_SameThreshold ==
    (period.done /\ Analysed) =>
        LET tf == fft_result.theoretical_freq
        IN  /\ period.inf <=> (100 * params.c * params.c >= 324 * params.k * params.m)
            /\ period.inf <=> (tf.zero /\ fft_result.freq_error.zero)
            /\ ~period.inf =>
                  /\ ~tf.zero
                  /\ tf.sq_times_4pi2[1] * period.sq_over_4pi2[1]
                        = tf.sq_times_4pi2[2] * period.sq_over_4pi2[2]

(* zeta = 0.9 exactly (m = 1, k = 25, c = 9): infinite period, theoretical *)
(* frequency 0. *)
C17_Witness ==
    /\ period.done /\ Analysed
    /\ params.m = 1 /\ params.k = 25 /\ params.c = 9
    /\ period.inf
    /\ fft_result.theoretical_freq.zero

(* zeta = 0.8: finite period. *)
C17_Oscillating ==
    /\ period.done /\ Analysed
    /\ params.m = 1 /\ params.k = 25 /\ params.c = 8
    /\ ~period.inf

(* C18: frequency_analysis checks the sample count first: a trajectory     *)
(* with fewer than 2 samples is rejected by that precondition, every       *)
(* trajectory with at least 2 samples yields a non-empty spectrum and a    *)
(* dominant frequency, and no call ends in an index or empty-array error.  *)
C18_Guarded ==
    fft_result.done =>
        IF Len(solution.t) < 2
        THEN fft_result.raised /\ fft_result.error = "precondition"
        ELSE ~fft_result.raised /\ Len(fft_result.frequencies) > 0

(* C19: for m > 0, k > 0, c >= 0, resonance_analysis returns               *)
(* resonance_omega = omega_n*sqrt(1 - 2*zeta^2) > 0 when zeta < 1/sqrt(2), *)
(* i.e. c^2 < 2km (its square is then (2km - c^2)/(2m^2)), and 0           *)
(* otherwise; it is positive for zeta = 0.05 (100c^2 = km) and 0 for       *)
(* zeta = 1.5 (c^2 = 9km).                                                 *)
C19_ResonanceOmega ==
    (resonance.done /\ params.m > 0 /\ params.k > 0 /\ params.c >= 0) =>
        LET c2 == params.c * params.c
            km == params.k * params.m
            w2 == resonance.resonance_omega_sq
        IN  /\ c2 < 2 * km =>
                  /\ w2[1] > 0
                  /\ w2[1] * 2 * params.m * params.m = (2 * km - c2) * w2[2]
            /\ c2 >= 2 * km => w2[1] = 0
            /\ 100 * c2 = km => w2[1] > 0
            /\ c2 = 9 * km => w2[1] = 0

(* zeta = 0.05 (m = 1, k = 100, c = 1): a resonance peak. *)
C19_Witness ==
    /\ resonance.done
    /\ params.m = 1 /\ params.k = 100 /\ params.c = 1
    /\ resonance.resonance_omega_sq = <<199, 2>>

(* zeta = 1.5 (m = 1, k = 64, c = 24): no resonance peak. *)
C19_Overdamped ==
    /\ resonance.done
    /\ params.m = 1 /\ params.k = 64 /\ params.c = 24
    /\ resonance.resonance_omega_sq = <<0, 1>>

(* C20: SpringParameters is immutable: after construction no step, of the  *)
(* core or of a caller holding the object, changes its m, k, c, x0 or v0.  *)
C20_Immutable == [][params' = params]_vars

(* What is reachable from the i-th returned trajectory. *)
C21_View(i) == [params |-> heap[trajs[i].params], x |-> trajs[i].x]

(* C21: a returned trajectory shares no mutable object with the preset     *)
(* table or with another trajectory: a step that changes something         *)
(* reachable from one returned trajectory leaves the preset table and      *)
(* every other trajectory as they were (so at most one trajectory changes  *)
(* in a step, and the table never does).                                   *)
C21_Fresh ==
    [][/\ heap' = heap
       /\ \A i, j \in DOMAIN trajs :
             (i # j /\ C21_View(i)' # C21_View(i)) => C21_View(j)' = C21_View(j)]_vars

(* C22: the preset table holds exactly five systems, each with m > 0,      *)
(* k > 0, c >= 0, and damping_type gives car_suspension CRITICALLY_DAMPED  *)
(* (zeta = 0.9), trampoline, lab_spring and spring_mass UNDERDAMPED, and   *)
(* door_closer OVERDAMPED.                                                 *)
C22_Presets ==
    /\ Cardinality(DOMAIN PRESETS) = 5
    /\ \A key \in DOMAIN PRESETS :
          PRESETS[key].m > 0 /\ PRESETS[key].k > 0 /\ PRESETS[key].c >= 0
    /\ \A key \in DOMAIN PRESETS :
          (dtype # "none" /\ params = PRESETS[key]) =>
              dtype = CASE key = "car_suspension" -> CRITICALLY_DAMPED
                        [] key = "door_closer" -> OVERDAMPED
                        [] OTHER -> UNDERDAMPED
    /\ zeta_sq(PRESETS["car_suspension"]) = <<81, 100>>

C22_Witness ==
    /\ params = PRESETS["car_suspension"]
    /\ dtype = CRITICALLY_DAMPED

(* |parsed - original| <= 0.5e-6 for rationals <<n, d>>. *)
C23_Within(parsed, original) ==
    2 * Abs(parsed[1] * original[2] - original[1] * parsed[2])
        * 1000000 <= parsed[2] * original[2]

(* C23: export_to_csv emits the header t(s),x(m),v(m/s),a(m/s2),KE(J),     *)
(* PE(J),E_total(J), then exactly one row per sample in sample order, and  *)
(* parsing row i back gives t[i], x[i], v[i], a[i], KE[i], PE[i],          *)
(* E_total[i], each within 0.5e-6 of the original.                         *)
C23_RoundTrip ==
    csv.done =>
        /\ csv.header = <<"t(s)", "x(m)", "v(m/s)", "a(m/s2)", "KE(J)", "PE(J)", "E_total(J)">>
        /\ Len(csv.rows) = Len(solution.t)
        /\ \A i \in 1..Len(solution.t) :
              LET original == <<Frac(solution.t[i], 1), Frac(solution.x[i], 1),
                                Frac(solution.v[i], 1), solution.a[i], solution.KE[i],
                                solution.PE[i], solution.E_total[i]>>
              IN  \A col \in 1..7 :
                     C23_Within(parse_float(csv.rows[i][col]), original[col])

(* Three samples, one of them with an acceleration of -2/3 or 2/3, which   *)
(* is printed rounded up in the last decimal.                              *)
C23_Witness ==
    /\ csv.done
    /\ Len(csv.rows) = 3
    /\ \E i \in 1..3 :
          /\ Abs(solution.a[i][1]) = 2 /\ solution.a[i][2] = 3
          /\ csv.rows[i][4].decimals = 666667

(* C25: every call app.py makes to solve_spring_system passes only         *)
(* arguments the function accepts, so the call returns a trajectory and    *)
(* never fails on an unknown argument.                                     *)
C25_DeclaredContract ==
    error # "TypeError"

(* C26 as stated: in every branch the position and velocity                *)
(* analytical_solution returns at t = 0 are exactly x0 and v0.             *)
C26_IsValue(q, n) == q.a = <<n, 1>> /\ q.b = <<0, 1>>

C26_ExactInitial ==
    analytic0.done =>
        /\ C26_IsValue(analytic0.x, params.x0) /\ analytic0.x_err = 0
        /\ C26_IsValue(analytic0.v, params.v0) /\ analytic0.v_err = 0

(* C26, amended: in every branch the coefficients A and B give x(0) = x0   *)
(* and v(0) = v0 in real arithmetic, so the returned values are x0 and v0  *)
(* up to the rounding of the float operations; the position at t = 0 is    *)
(* exactly x0 in the undamped, underdamped and critical branches.          *)
C26_InitialConditions ==
    analytic0.done =>
        /\ C26_IsValue(analytic0.x, params.x0)
        /\ C26_IsValue(analytic0.v, params.v0)
        /\ analytic0.branch # OVERDAMPED => analytic0.x_err = 0

(* An underdamped evaluation with irrational omega_d, x0 # 0 and v0 # 0    *)
(* whose velocity carries a rounding error.                                *)
C26_Witness ==
    /\ analytic0.done /\ analytic0.branch = UNDERDAMPED
    /\ params.x0 # 0 /\ params.v0 # 0 /\ params.c > 0
    /\ QSqrt(omega_d_sq(params)).b # <<0, 1>>
    /\ analytic0.v_err # 0

(* C27: the trajectory handed to the browser animation holds at most 500   *)
(* points: for every length N >= 1, every max(1, N div 500)-th sample      *)
(* makes no more than 500 samples.                                         *)
C27_AtMost500 ==
    js_samples.done => Len(js_samples.indices) <= 500

(* C28: whenever generate_conclusions emits the line that the FFT is       *)
(* consistent with theory, the theoretical frequency reported in the same  *)
(* section is greater than 0, for every damping ratio.                     *)
C28_RealComparison ==
    (conclusions.done /\ conclusions.consistent_line)
        => ~conclusions.theoretical_freq.zero

(* C29: in both browser animations the frame index (and the index of every *)
(* draw) stays within 0 .. totalFrames-1 under every order of play, pause, *)
(* callbacks, resets and seeks; a frame advance on the last frame wraps    *)
(* the index to 0 and reset sets it to 0.                                  *)
C29_InRange ==
    anim.loaded =>
        /\ anim.frameIdx \in 0..(anim.totalFrames - 1)
        /\ anim.drawn \in 0..(anim.totalFrames - 1)
        /\ anim.op = "reset" => anim.frameIdx = 0 /\ anim.drawn = 0

C29_Wraps ==
    [][(/\ anim.loaded
        /\ anim'.op = "advance" \/ (anim'.op = "play" /\ anim.kind = "phase")
        /\ anim.frameIdx = anim.totalFrames - 1) => anim'.frameIdx = 0]_vars

C29_FrameIndex == []C29_InRange /\ C29_Wraps

(* A frame advance on the last of several frames has wrapped to frame 0,   *)
(* in the spring animation at a speed other than 1x.                       *)
C29_Witness ==
    /\ anim.loaded /\ anim.kind = "spring"
    /\ anim.totalFrames = MaxFrames /\ anim.speed # DefaultSpeed
    /\ anim.op = "advance" /\ anim.frameIdx = 0 /\ anim.callbacks >= MaxFrames

(* C30: the speed selector is effective: with callbacks at a fixed 60 Hz   *)
(* while playing, a higher speed advances strictly more frames in the same *)
(* callbacks than every lower speed of the selector.                       *)
C30_SpeedEffective ==
    (/\ anim.loaded /\ anim.isPlaying /\ anim.steady
     /\ anim.callbacks = Warm + Window)
        => \A lower \in Speeds :
              lower < anim.speed
                  => anim.advanced
                       > playback(lower, anim.phase, Warm + Window).advanced

====
